---- MODULE Spec2Model ----
(***************************************************************************)
(* The problem registry of sinister-backend: the in-memory array           *)
(* `problems`, the counter `nextId`, and the Express handlers that read    *)
(* and mutate them.  Both packaging variants (root paths and /api paths)   *)
(* run the same handler bodies; the model follows the root-path file.      *)
(***************************************************************************)
EXTENDS Integers, Sequences, FiniteSets

VARIABLES
    problems,   \* let problems = []: the stored records, in array order
    nextId,     \* let nextId = 1
    now,        \* the reading of the process clock, in milliseconds
    req,        \* the request being handled, NoRequest between requests
    res,        \* the response being written to it, Idle between requests
    assigned,   \* history: the ids returned by successful Create calls, in order
    deleted     \* history: the ids of the records Delete has removed

vars == <<problems, nextId, now, req, res, assigned, deleted>>

(* ------------------------------ bounds --------------------------------- *)
MaxId == 2          \* successful Create calls in a run
MaxUpvotes == 2     \* upvotes one record may collect
MaxClock == 1       \* last millisecond the process clock reaches

(* ------------------------- JavaScript values --------------------------- *)
MISSING == "<undefined>"    \* a property the request body does not carry
EMPTY == ""

\* JavaScript truthiness of a body or query value, as used by `!title` and `title &&`
Truthy(v) == v \notin {MISSING, EMPTY}

Titles == {"Pothole"}
Descriptions == {"Large pothole"}
Locations == {"Main St"}
RecognizedCategories == {"infrastructure", "safety", "environment", "education", "health"}
CategoryValues == {"health", "other"}
ValidStatuses == {"open", "in-progress", "resolved"}
StatusValues == ValidStatuses \cup {"bogus"}

(* ------------------------------ the clock ------------------------------ *)
MsPerSec == 1000

\* new Date().toISOString(): the millisecond reading written as seconds and milliseconds
ToISOString(t) == [sec |-> t \div MsPerSec, ms |-> t % MsPerSec]

\* string comparison of two ISO timestamps (fixed width, so field by field)
IsoLess(a, b) == \/ a.sec < b.sec
                 \/ a.sec = b.sec /\ a.ms < b.ms

IsoLeq(a, b) == a = b \/ IsoLess(a, b)

(* ------------------------------ parseInt ------------------------------- *)
\* characters are their ASCII codes
ChSpace == 32
ChPlus == 43
ChMinus == 45
Ch0 == 48
Ch9 == 57
ChUpperX == 88
ChLowerX == 120

NaN == [nan |-> TRUE, val |-> 0]
Num(n) == [nan |-> FALSE, val |-> n]

IsDigit(c) == c >= Ch0 /\ c <= Ch9

RECURSIVE StripSpace(_)
StripSpace(s) == IF s # <<>> /\ Head(s) = ChSpace THEN StripSpace(Tail(s)) ELSE s

\* the longest prefix of decimal digits of s, as a number; acc carries the value so far
RECURSIVE DigitsValue(_, _)
DigitsValue(s, acc) ==
    IF s # <<>> /\ IsDigit(Head(s))
    THEN DigitsValue(Tail(s), acc * 10 + (Head(s) - Ch0))
    ELSE acc

\* parseInt(string) with no radix argument
ParseInt(str) ==
    LET s1 == StripSpace(str)
        neg == s1 # <<>> /\ Head(s1) = ChMinus
        s2 == IF s1 # <<>> /\ Head(s1) \in {ChPlus, ChMinus} THEN Tail(s1) ELSE s1
        hex == Len(s2) >= 2 /\ s2[1] = Ch0 /\ s2[2] \in {ChLowerX, ChUpperX}
        s3 == IF hex THEN Tail(Tail(s2)) ELSE s2
    IN IF s3 = <<>> \/ ~IsDigit(Head(s3))
       THEN NaN
       ELSE Num((IF neg THEN -1 ELSE 1) * DigitsValue(s3, 0))

\* p.id === parseInt(req.params.id)
IdMatches(p, n) == ~n.nan /\ p.id = n.val

(* --------------------------- array helpers ----------------------------- *)
\* findIndex whose -1 is then used as an index from the end of the array
FindIndexOrLast(n) ==
    IF \E i \in 1..Len(problems) : IdMatches(problems[i], n)
    THEN CHOOSE i \in 1..Len(problems) :
            /\ IdMatches(problems[i], n)
            /\ \A j \in 1..(i - 1) : ~IdMatches(problems[j], n)
    ELSE Len(problems)

\* Array.prototype.findIndex over `problems`, 1-based; 0 stands for -1
FindIndex(n) ==
    IF \E i \in 1..Len(problems) : IdMatches(problems[i], n)
    THEN CHOOSE i \in 1..Len(problems) :
            /\ IdMatches(problems[i], n)
            /\ \A j \in 1..(i - 1) : ~IdMatches(problems[j], n)
    ELSE 0

\* problems.splice(i): without the delete count, everything from i on goes
SpliceToEnd(s, i) == SubSeq(s, 1, i - 1)

\* problems.splice(i, 1): the array without its i-th element
Splice(s, i) == SubSeq(s, 1, i - 1) \o SubSeq(s, i + 1, Len(s))

\* the comparator of the stats handler: (a, b) => b.upvotes - a.upvotes
Compare(a, b) == b.upvotes - a.upvotes

\* insert x into the sorted array s after every element that does not sort after it
RECURSIVE InsertSorted(_, _)
InsertSorted(s, x) ==
    IF s = <<>> THEN <<x>>
    ELSE IF Compare(Head(s), x) <= 0 THEN <<Head(s)>> \o InsertSorted(Tail(s), x)
    ELSE <<x>> \o s

\* Array.prototype.sort with the comparator above (stable)
RECURSIVE Sort(_)
Sort(s) == IF s = <<>> THEN <<>>
           ELSE InsertSorted(Sort(SubSeq(s, 1, Len(s) - 1)), s[Len(s)])

\* Array.prototype.slice(0, n)
Slice(s, n) == SubSeq(s, 1, IF Len(s) < n THEN Len(s) ELSE n)

TopN == 5

(* ------------------------- requests and responses ---------------------- *)
NoFields == [title |-> MISSING, description |-> MISSING, category |-> MISSING,
             location |-> MISSING, status |-> MISSING]

\* req: the route, req.params.id, and req.body (req.query for GET /problems)
Request(route, param, body) == [route |-> route, param |-> param, body |-> body]

NoRequest == Request("none", <<>>, NoFields)

NoStats == [total |-> 0, open |-> 0, inProgress |-> 0, resolved |-> 0,
            categories |-> [c \in RecognizedCategories |-> 0]]

\* res.status(code).json({ message, data })
Response(code, message, data) ==
    [code |-> code, message |-> message, data |-> data, stats |-> NoStats]

\* no response is being written: the server waits for the next request
Idle == Response(0, "", <<>>)

NotFound == Response(404, "Problem not found", <<>>)

(* -------------------------------- inputs ------------------------------- *)
DigitChars == {Ch0 + d : d \in 1..(MaxId + 1)}

\* values of the :id path segment
IdParams == {<<c>> : c \in DigitChars}
            \cup {<<ChLowerX>>, <<ChSpace, Ch0 + 1, ChLowerX>>, <<ChMinus, Ch0 + 1, Ch0 + 2>>}

ValidBody == [title |-> "Pothole", description |-> "Large pothole",
              category |-> "health", location |-> "Main St", status |-> MISSING]

\* request bodies of POST: every field supplied, or one of them empty or missing
CreateBodies ==
    {[ValidBody EXCEPT !.category = v] : v \in CategoryValues}
    \cup {[ValidBody EXCEPT !.status = "resolved"]}
    \cup {[ValidBody EXCEPT !.title = v] : v \in {MISSING, EMPTY}}
    \cup {[ValidBody EXCEPT !.description = v] : v \in {MISSING, EMPTY}}
    \cup {[ValidBody EXCEPT !.category = v] : v \in {MISSING, EMPTY}}
    \cup {[ValidBody EXCEPT !.location = v] : v \in {MISSING, EMPTY}}
    \cup {NoFields}

\* request bodies of PUT: nothing supplied, one field supplied, or all five
UpdateBodies ==
    {NoFields,
     [NoFields EXCEPT !.title = EMPTY],
     [NoFields EXCEPT !.category = "other"],
     [NoFields EXCEPT !.status = EMPTY],
     [NoFields EXCEPT !.status = "in-progress"],
     [NoFields EXCEPT !.status = "bogus"],
     [title |-> "Pothole", description |-> "Large pothole", category |-> "health",
      location |-> "Main St", status |-> "resolved"]}

\* request bodies of PATCH, by their status property
StatusInputs == StatusValues \cup {MISSING}

\* query strings of GET /problems
StatusFilters == {MISSING, EMPTY, "resolved"}
CategoryFilters == {MISSING, "health"}

(* --------------------------------- Init -------------------------------- *)
Init ==
    /\ problems = <<>>
    /\ nextId = 1
    /\ now = 0
    /\ req = NoRequest
    /\ res = Idle
    /\ assigned = <<>>
    /\ deleted = {}

(* -------------------------------- actions ------------------------------ *)
\* the process clock moves on by a millisecond between two reads
Tick ==
    /\ now < MaxClock
    /\ now' = now + 1
    /\ UNCHANGED <<problems, nextId, req, res, assigned, deleted>>

\* id: problems.length + 1
NewIdFromLength == Len(problems) + 1

\* id: nextId++ (the value the new record gets)
NewId == nextId

\* the presence check without the location
MissingRequiredButLocation(body) ==
    ~Truthy(body.title) \/ ~Truthy(body.description) \/ ~Truthy(body.category)

\* !title || !description || !category || !location
MissingRequired(body) ==
    ~Truthy(body.title) \/ ~Truthy(body.description)
    \/ ~Truthy(body.category) \/ ~Truthy(body.location)

\* a presence check in place of the membership test
IsSuppliedStatus(status) == Truthy(status)

\* ['open', 'in-progress', 'resolved'].includes(status)
IsValidStatus(status) == status \in ValidStatuses

\* the upvote without the refresh of updatedAt
UpvotedStale(p) == [p EXCEPT !.upvotes = @ + 1]

\* upvotes += 1; updatedAt = new Date().toISOString()
Upvoted(p) == [p EXCEPT !.upvotes = @ + 1, !.updatedAt = ToISOString(now)]

\* GET /problems
List(status, category) ==
    /\ req = NoRequest
    /\ req' = Request("GET /problems", <<>>,
                      [NoFields EXCEPT !.status = status, !.category = category])
    /\ LET byStatus == IF Truthy(status)
                       THEN SelectSeq(problems, LAMBDA p : p.status = status)
                       ELSE problems
           byCategory == IF Truthy(category)
                         THEN SelectSeq(byStatus, LAMBDA p : p.category = category)
                         ELSE byStatus
       IN res' = Response(200, "", byCategory)
    /\ UNCHANGED <<problems, nextId, now, assigned, deleted>>

\* GET /problems/:id
Get(param) ==
    /\ req = NoRequest
    /\ req' = Request("GET /problems/:id", param, NoFields)
    /\ LET i == FindIndex(ParseInt(param))
       IN res' = IF i = 0 THEN NotFound ELSE Response(200, "", <<problems[i]>>)
    /\ UNCHANGED <<problems, nextId, now, assigned, deleted>>

\* POST /problems; the clock may move on by d between the two new Date() reads
Create(body, d) ==
    /\ req = NoRequest
    /\ req' = Request("POST /problems", <<>>, body)
    /\ IF MissingRequired(body)
       THEN /\ d = 0
            /\ res' = Response(400, "Please provide all required fields", <<>>)
            /\ UNCHANGED <<problems, nextId, now, assigned, deleted>>
       ELSE /\ nextId <= MaxId
            /\ now + d <= MaxClock
            /\ LET newProblem == [id |-> NewId,
                                  title |-> body.title,
                                  description |-> body.description,
                                  category |-> body.category,
                                  location |-> body.location,
                                  upvotes |-> 0,
                                  status |-> "open",
                                  createdAt |-> ToISOString(now),
                                  updatedAt |-> ToISOString(now + d)]
               IN /\ nextId' = nextId + 1
                  /\ problems' = Append(problems, newProblem)
                  /\ res' = Response(201, "Problem reported successfully", <<newProblem>>)
                  /\ assigned' = Append(assigned, newProblem.id)
            /\ now' = now + d
            /\ UNCHANGED deleted

\* the record rebuilt from the body, its counter back at zero
MergeResetsUpvotes(p, body) ==
    [p EXCEPT !.title = IF Truthy(body.title) THEN body.title ELSE @,
              !.description = IF Truthy(body.description) THEN body.description ELSE @,
              !.category = IF Truthy(body.category) THEN body.category ELSE @,
              !.location = IF Truthy(body.location) THEN body.location ELSE @,
              !.status = IF Truthy(body.status) THEN body.status ELSE @,
              !.upvotes = 0,
              !.updatedAt = ToISOString(now)]

\* { ...problems[i], ...(title && { title }), ..., updatedAt }
Merge(p, body) ==
    [p EXCEPT !.title = IF Truthy(body.title) THEN body.title ELSE @,
              !.description = IF Truthy(body.description) THEN body.description ELSE @,
              !.category = IF Truthy(body.category) THEN body.category ELSE @,
              !.location = IF Truthy(body.location) THEN body.location ELSE @,
              !.status = IF Truthy(body.status) THEN body.status ELSE @,
              !.updatedAt = ToISOString(now)]

\* PUT /problems/:id
Update(param, body) ==
    /\ req = NoRequest
    /\ req' = Request("PUT /problems/:id", param, body)
    /\ LET i == FindIndex(ParseInt(param))
       IN IF i = 0
          THEN /\ res' = NotFound
               /\ UNCHANGED problems
          ELSE /\ problems' = [problems EXCEPT ![i] = Merge(@, body)]
               /\ res' = Response(200, "Problem updated successfully", <<problems'[i]>>)
    /\ UNCHANGED <<nextId, now, assigned, deleted>>

\* POST /problems/:id/upvote
Upvote(param) ==
    /\ req = NoRequest
    /\ req' = Request("POST /problems/:id/upvote", param, NoFields)
    /\ LET i == FindIndex(ParseInt(param))
       IN IF i = 0
          THEN /\ res' = NotFound
               /\ UNCHANGED problems
          ELSE /\ problems[i].upvotes < MaxUpvotes
               /\ problems' = [problems EXCEPT ![i] = Upvoted(@)]
               /\ res' = Response(200, "Upvote recorded", <<problems'[i]>>)
    /\ UNCHANGED <<nextId, now, assigned, deleted>>

\* PATCH /problems/:id/status
ChangeStatus(param, status) ==
    /\ req = NoRequest
    /\ req' = Request("PATCH /problems/:id/status", param, [NoFields EXCEPT !.status = status])
    /\ LET i == FindIndex(ParseInt(param))
       IN IF i = 0
          THEN /\ res' = NotFound
               /\ UNCHANGED problems
          ELSE IF ~IsValidStatus(status)
          THEN /\ res' = Response(400,
                                  "Invalid status. Must be: open, in-progress, or resolved",
                                  <<>>)
               /\ UNCHANGED problems
          ELSE /\ problems' = [problems EXCEPT ![i].status = status,
                                               ![i].updatedAt = ToISOString(now)]
               /\ res' = Response(200, "Status updated successfully", <<problems'[i]>>)
    /\ UNCHANGED <<nextId, now, assigned, deleted>>

\* DELETE /problems/:id
Delete(param) ==
    /\ req = NoRequest
    /\ req' = Request("DELETE /problems/:id", param, NoFields)
    /\ LET i == FindIndex(ParseInt(param))
       IN IF i = 0
          THEN /\ res' = NotFound
               /\ UNCHANGED <<problems, deleted>>
          ELSE /\ problems' = Splice(problems, i)
               /\ res' = Response(200, "Problem deleted successfully", <<problems[i]>>)
               /\ deleted' = deleted \cup {problems[i].id}
    /\ UNCHANGED <<nextId, now, assigned>>

\* the stats object with total taken as the sum of the three status counts
StatsOfStatusSum(s) ==
    [total |-> Len(SelectSeq(s, LAMBDA p : p.status = "open"))
               + Len(SelectSeq(s, LAMBDA p : p.status = "in-progress"))
               + Len(SelectSeq(s, LAMBDA p : p.status = "resolved")),
     open |-> Len(SelectSeq(s, LAMBDA p : p.status = "open")),
     inProgress |-> Len(SelectSeq(s, LAMBDA p : p.status = "in-progress")),
     resolved |-> Len(SelectSeq(s, LAMBDA p : p.status = "resolved")),
     categories |-> [c \in RecognizedCategories |->
                        Len(SelectSeq(s, LAMBDA p : p.category = c))]]

\* the counts of the stats object, taken over the array s
StatsOf(s) ==
    [total |-> Len(s),
     open |-> Len(SelectSeq(s, LAMBDA p : p.status = "open")),
     inProgress |-> Len(SelectSeq(s, LAMBDA p : p.status = "in-progress")),
     resolved |-> Len(SelectSeq(s, LAMBDA p : p.status = "resolved")),
     categories |-> [c \in RecognizedCategories |->
                        Len(SelectSeq(s, LAMBDA p : p.category = c))]]

\* GET /stats; problems.sort(...) sorts the live array in place
Stats ==
    /\ req = NoRequest
    /\ req' = Request("GET /stats", <<>>, NoFields)
    /\ problems' = Sort(problems)
    /\ res' = [Response(200, "", Slice(problems', TopN)) EXCEPT !.stats = StatsOf(problems)]
    /\ UNCHANGED <<nextId, now, assigned, deleted>>

\* res.json(...) returns: the response leaves the process, the next request is taken
Deliver ==
    /\ req # NoRequest
    /\ req' = NoRequest
    /\ res' = Idle
    /\ UNCHANGED <<problems, nextId, now, assigned, deleted>>

Next ==
    \/ Tick
    \/ Deliver
    \/ \E s \in StatusFilters, c \in CategoryFilters : List(s, c)
    \/ \E param \in IdParams : Get(param)
    \/ \E body \in CreateBodies, d \in 0..1 : Create(body, d)
    \/ \E param \in IdParams, body \in UpdateBodies : Update(param, body)
    \/ \E param \in IdParams : Upvote(param)
    \/ \E param \in IdParams, s \in StatusInputs : ChangeStatus(param, s)
    \/ \E param \in IdParams : Delete(param)
    \/ Stats

Spec == Init /\ [][Next]_vars

(* ------------------------------ properties ----------------------------- *)
StoredIds == {problems[i].id : i \in 1..Len(problems)}

\* some stored record has the id the path segment denotes
Known(param) == \E i \in 1..Len(problems) : IdMatches(problems[i], ParseInt(param))

\* the position of the record the path segment denotes
IndexOf(param) == CHOOSE i \in 1..Len(problems) : IdMatches(problems[i], ParseInt(param))

IsNotFound(r) == r.code = 404 /\ r.message = "Problem not found"

IdRoutes == {"GET /problems/:id", "PUT /problems/:id", "POST /problems/:id/upvote",
             "PATCH /problems/:id/status", "DELETE /problems/:id"}

\* this step is a handler taking the request req' and writing the response res'
Handles(route) == req = NoRequest /\ req'.route = route

\* C1: the ids handed out by successful Create calls are strictly increasing, no two
\* stored records share an id, and no stored record carries the id of a deleted one.
C1_IdsUniqueNeverReused ==
    /\ \A i, j \in 1..Len(assigned) : i < j => assigned[i] < assigned[j]
    /\ \A i, j \in 1..Len(problems) : i # j => problems[i].id # problems[j].id
    /\ StoredIds \cap deleted = {}
    /\ StoredIds \subseteq {assigned[i] : i \in 1..Len(assigned)}

\* a record was created after an older one was deleted
C1_Witness ==
    /\ deleted # {}
    /\ \E i \in 1..Len(problems) : \A d \in deleted : problems[i].id > d

\* C2: every stored record's status is one of open, in-progress, resolved.
C2_StatusRecognized ==
    \A i \in 1..Len(problems) : problems[i].status \in {"open", "in-progress", "resolved"}

\* C3: Get, Update, Upvote, ChangeStatus and Delete on an id no stored record has answer
\* 404 'Problem not found', whatever the body, and leave the records and nextId alone.
C3_UnknownIdNotFound ==
    [][(\E route \in IdRoutes : Handles(route)) /\ ~Known(req'.param)
          => (IsNotFound(res') /\ problems' = problems /\ nextId' = nextId)]_vars

\* an Update carrying a status is answered 404 while records are stored
C3_Witness ==
    /\ req.route = "PUT /problems/:id"
    /\ req.body.status = "bogus"
    /\ IsNotFound(res)
    /\ problems # <<>>
    /\ deleted # {}

\* C4: Create with a required field empty or missing answers 400, appends nothing and
\* consumes no id; a successful Create hands out the current value of nextId.
C4_InvalidCreateRejected ==
    [][Handles("POST /problems") =>
          IF \E f \in {"title", "description", "category", "location"} :
                 req'.body[f] \in {MISSING, EMPTY}
          THEN /\ res'.code = 400
               /\ res'.message = "Please provide all required fields"
               /\ problems' = problems
               /\ nextId' = nextId
          ELSE /\ res'.code = 201
               /\ res'.data[1].id = nextId
               /\ problems' = Append(problems, res'.data[1])]_vars

\* a Create was turned down after an earlier one had succeeded
C4_Witness ==
    /\ req.route = "POST /problems"
    /\ req.body.location = EMPTY
    /\ res.code = 400
    /\ nextId > 1

\* C5: ChangeStatus on a stored id with a status outside the three answers 400 and
\* mutates nothing; with a status inside it sets that record's status and nothing else
\* but its updatedAt.
C5_ChangeStatusValidated ==
    [][Handles("PATCH /problems/:id/status") /\ Known(req'.param) =>
          IF req'.body.status \notin {"open", "in-progress", "resolved"}
          THEN res'.code = 400 /\ problems' = problems
          ELSE /\ res'.code = 200
               /\ Len(problems') = Len(problems)
               /\ \A j \in 1..Len(problems) :
                     IF j = IndexOf(req'.param)
                     THEN /\ problems'[j].status = req'.body.status
                          /\ [problems'[j] EXCEPT !.status = problems[j].status,
                                                  !.updatedAt = problems[j].updatedAt]
                             = problems[j]
                     ELSE problems'[j] = problems[j]]_vars

\* an invalid status was turned down for a record that had left the open status
C5_Witness ==
    /\ req.route = "PATCH /problems/:id/status"
    /\ req.body.status = "bogus"
    /\ res.code = 400
    /\ problems[IndexOf(req.param)].status = "resolved"

\* this step is a successful Upvote of the record with this id
UpvoteOf(id) ==
    /\ Handles("POST /problems/:id/upvote")
    /\ res'.code = 200
    /\ ParseInt(req'.param) = Num(id)

\* C6: a record starts with 0 upvotes; every step leaves a stored record's upvotes as
\* they were, except a successful Upvote of that record, which adds exactly 1.
C6_UpvotesCountUpvoteCalls ==
    [][/\ \A j \in 1..Len(problems') :
             problems'[j].id \notin StoredIds => problems'[j].upvotes = 0
       /\ \A i \in 1..Len(problems), j \in 1..Len(problems') :
             problems[i].id = problems'[j].id =>
                problems'[j].upvotes
                   = problems[i].upvotes + (IF UpvoteOf(problems[i].id) THEN 1 ELSE 0)]_vars

\* a record has been upvoted twice and updated as well
C6_Witness ==
    \E i \in 1..Len(problems) :
        /\ problems[i].upvotes >= 2
        /\ problems[i].status = "resolved"
        /\ problems[i].category = "other"

\* C7: the stored array is in insertion order, that is, ascending id.
C7_InsertionOrder ==
    \A i, j \in 1..Len(problems) : i < j => problems[i].id < problems[j].id

CategoryCount(c) == Cardinality({i \in 1..Len(problems) : problems[i].category = c})

\* C8: the stats answer's total is the number of stored records, each category count is
\* the number of stored records of exactly that category, and the five counts sum to at
\* most total.
C8_StatsMatchCollection ==
    req.route = "GET /stats" =>
       /\ res.stats.total = Len(problems)
       /\ \A c \in RecognizedCategories : res.stats.categories[c] = CategoryCount(c)
       /\ res.stats.categories["infrastructure"] + res.stats.categories["safety"]
          + res.stats.categories["environment"] + res.stats.categories["education"]
          + res.stats.categories["health"] <= res.stats.total

\* stats were answered over a recognized and an unrecognized category and a status
\* outside the three
C8_Witness ==
    /\ req.route = "GET /stats"
    /\ \E i, j \in 1..Len(problems) :
          /\ problems[i].category = "other"
          /\ problems[j].category = "health"
          /\ problems[j].status = "bogus"

\* C9: Delete of a stored id removes that record alone, keeps the others as they are,
\* answers with the removed record, and from then on the id is stored never again and
\* every request for it is answered 404.
C9_DeleteRemovesExactlyOne ==
    [][/\ Handles("DELETE /problems/:id") /\ Known(req'.param) =>
             LET gone == problems[IndexOf(req'.param)]
             IN /\ Len(problems') = Len(problems) - 1
                /\ problems' = SelectSeq(problems, LAMBDA p : p.id # gone.id)
                /\ res'.code = 200
                /\ res'.data = <<gone>>
                /\ gone.id \in deleted'
       /\ (\E route \in IdRoutes : Handles(route))
             /\ ~ParseInt(req'.param).nan /\ ParseInt(req'.param).val \in deleted
          => IsNotFound(res')
       /\ deleted \subseteq deleted'
       /\ \A j \in 1..Len(problems') : problems'[j].id \notin deleted']_vars

\* an upvoted record was deleted while another one stayed
C9_Witness ==
    /\ req.route = "DELETE /problems/:id"
    /\ res.code = 200
    /\ problems # <<>>
    /\ res.data[1].upvotes > 0

\* C10 as stated: a successful Upvote leaves updatedAt strictly greater than before.
C10_UpdatedAtStrictlyGreater ==
    [][Handles("POST /problems/:id/upvote") /\ Known(req'.param) =>
          IsoLess(problems[IndexOf(req'.param)].updatedAt,
                  problems'[IndexOf(req'.param)].updatedAt)]_vars

\* C10 as amended: a successful Upvote leaves updatedAt no earlier than before, and
\* strictly greater when the clock reads later than the earlier value.
C10_UpdatedAtNotEarlier ==
    [][Handles("POST /problems/:id/upvote") /\ Known(req'.param) =>
          LET before == problems[IndexOf(req'.param)].updatedAt
              after == problems'[IndexOf(req'.param)].updatedAt
          IN /\ IsoLeq(before, after)
             /\ IsoLess(before, ToISOString(now)) => IsoLess(before, after)
             /\ res'.data[1].updatedAt = after]_vars

\* an Upvote was answered with an updatedAt later than the record's createdAt
C10_Witness ==
    /\ req.route = "POST /problems/:id/upvote"
    /\ res.code = 200
    /\ IsoLess(res.data[1].createdAt, res.data[1].updatedAt)

====
